---- MODULE Spec2Model ----
(***************************************************************************)
(* Model of tools/brazilian_league_mapper.py: the multi-backend page       *)
(* fetcher (init_fetcher, _load_offline, _fetch_with_*, fetch_page,        *)
(* _cleanup_selenium), the roster selection (select_roster), the stat      *)
(* mapping (compute_issd_stats, scale, clamp), the name formatting         *)
(* (format_name_8char) and the loop of main over the team list.            *)
(*                                                                         *)
(* Six specifications share the variables:                                 *)
(*   Spec        the fetcher: init_fetcher, then any number of fetch_page  *)
(*               calls, one step per GET attempt;                          *)
(*   SpecRoster  select_roster applied to a pool of players;               *)
(*   SpecStats   compute_issd_stats applied to a player and its tables;    *)
(*   SpecScale   scale applied to a value and a range;                     *)
(*   SpecName    format_name_8char applied to a name;                      *)
(*   SpecRun     main: the team list, then the scrapes of every team.      *)
(***************************************************************************)
EXTENDS Integers, Sequences, FiniteSets, TLC

VARIABLES
    \* ---- fetcher (module globals and the control state of fetch_page) ----
    pc,              \* "start" | "idle" | "loop" | "exit" (sys.exit in init_fetcher) | "ended"
    requested,       \* the backend name main passed to init_fetcher
    HAS_CLOUDSCRAPER,\* import of cloudscraper succeeded
    HAS_SELENIUM,    \* import of undetected_chromedriver/selenium succeeded
    fetcher_type,    \* _fetcher_type: "none" | "cloudscraper" | "selenium" | "requests" | "offline"
    html_dir,        \* _html_dir: "none" | "dir" (an existing directory) | "nodir" (a path that is no directory)
    loopOn,          \* the backend whose _fetch_with_* loop is running, or "none"
    attempt,         \* loop variable of `for attempt in range(retries)`
    primary,         \* _fetcher_type when the running/last fetch_page was entered
    tries,           \* GETs issued per backend within the running/last fetch_page
    lastBackend,     \* backend of the last GET
    lastStatus,      \* how the last GET was answered
    lastSleep,       \* the time.sleep the loop did after classifying that answer
    gapAtGet,        \* time since the last accepted success when the last GET was issued (NoGap: none yet)
    sinceSuccess,    \* time elapsed since the last accepted success (saturating)
    outcome,         \* result of the last fetch_page: "none" | "content" | "failure"
    candidates,      \* _load_offline: the candidate paths of the last call, as "is a file" flags
    offlineResult,   \* _load_offline: index of the candidate read, 0 for None
    sessions,        \* every session/driver object created so far, with its backend and whether it is open
    fetcher_session, \* _fetcher_session: index into sessions, 0 for None
    \* ---- roster selection ----
    rpc,             \* "pool" | "selected" | "mapped"
    pool,            \* the players handed to select_roster
    appended,        \* rows appended to the squad so far
    selection,       \* `roster` before the final sort
    roster,          \* the list select_roster returns
    roster_mapped,   \* main: the position and stat_bytes of every roster entry, in roster order
    \* ---- stat mapping ----
    spc,             \* "input" | "computed"
    player,          \* the player record handed to compute_issd_stats
    tables,          \* the supplementary rows of that player (or "absent")
    stats,           \* the dict compute_issd_stats returns
    \* ---- scale ----
    scalePc,         \* "input" | "applied"
    scaleArgs,       \* the arguments (value, src_min, src_max) of a call of scale
    scaleResult,     \* what the call returned
    \* ---- name formatting ----
    namePc,          \* "input" | "formatted"
    full_name,       \* the argument of format_name_8char, a sequence of characters
    parts,           \* name.split()
    significant,     \* the tokens left after the particles are skipped
    chosen_token,    \* `chosen`, the representative token, before truncation
    name_8char,      \* what format_name_8char returned
    \* ---- the run of main over the team list ----
    runPc,           \* "teamlist" | "team" | "done" | "exit"
    skip_extra_stats,\* args.skip_extra_stats
    teams,           \* number of teams scrape_team_list returned
    idx,             \* the team of the running iteration of the loop (1-based), 0 before
    step,            \* the page the iteration fetches next
    pagesRequested,  \* <<team, page>> for every team page passed to fetch_page
    failedTeamList,  \* the fetch of the team list failed
    failedStandard,  \* teams whose standard-stats fetch failed
    failedExtra,     \* teams with a supplementary-table fetch that failed
    all_teams,       \* the teams appended to all_teams, in order
    cache,           \* teams whose cache file was written
    output           \* the teams of the generated assembly and JSON files, <<>> while none is generated

fetchVars == <<pc, requested, HAS_CLOUDSCRAPER, HAS_SELENIUM, fetcher_type, html_dir, loopOn,
               attempt, primary, tries, lastBackend, lastStatus, lastSleep,
               gapAtGet, sinceSuccess, outcome, candidates, offlineResult,
               sessions, fetcher_session>>
rosterVars == <<rpc, pool, appended, selection, roster, roster_mapped>>
statVars == <<spc, player, tables, stats>>
scaleVars == <<scalePc, scaleArgs, scaleResult>>
nameVars == <<namePc, full_name, parts, significant, chosen_token, name_8char>>
runVars == <<runPc, skip_extra_stats, teams, idx, step, pagesRequested, failedTeamList,
             failedStandard, failedExtra, all_teams, cache, output>>
vars == <<fetchVars, rosterVars, statVars, scaleVars, nameVars, runVars>>

\* What the operations of one part leave alone.
besidesFetch == <<rosterVars, statVars, scaleVars, nameVars, runVars>>
besidesRoster == <<fetchVars, statVars, scaleVars, nameVars, runVars>>
besidesStats == <<fetchVars, rosterVars, scaleVars, nameVars, runVars>>
besidesScale == <<fetchVars, rosterVars, statVars, nameVars, runVars>>
besidesName == <<fetchVars, rosterVars, statVars, scaleVars, runVars>>
besidesRun == <<fetchVars, rosterVars, statVars, scaleVars, nameVars>>

Min(a, b) == IF a <= b THEN a ELSE b
Max(a, b) == IF a >= b THEN a ELSE b

(***************************************************************************)
(* Fetcher                                                                 *)
(***************************************************************************)
REQUEST_DELAY == 6
Retries == 3

\* Bounds of the model.
ElapsedCap == 24     \* sinceSuccess saturates here
MaxFiles == 2        \* fuzzy-matched files of the offline directory per URL

NoGap == 0 - 1

Network == {"cloudscraper", "selenium", "requests"}
Requested == {"auto", "cloudscraper", "selenium", "requests", "unknown"}

\* Answers to one GET. cloudscraper/requests see a status code; "ok_empty" is a
\* 200 whose resp.text is the empty string. Selenium sees the rendered page:
\* "page" is longer than 1000 bytes, "small" is not, "challenge_*" showed the
\* Cloudflare interstitial on the first read, "exc" is a raised exception.
HttpAnswers == {"ok", "ok_empty", "429", "403", "other", "exc"}
SeleniumAnswers == {"page", "challenge_page", "small", "challenge_small", "exc"}
Answers(b) == IF b = "selenium" THEN SeleniumAnswers ELSE HttpAnswers

\* The loop accepts the answer and returns the body.
Accepted(b, a) == a \in {"ok", "ok_empty", "page", "challenge_page"}
\* The returned body is truthy (`if result:` in fetch_page).
Truthy(a) == a \in {"ok", "page", "challenge_page"}

\* Sleeps of _fetch_with_selenium before the page is classified.
PreSleep(b, a) ==
    IF b # "selenium" \/ a = "exc" THEN 0
    ELSE IF a \in {"challenge_page", "challenge_small"} THEN 3 + 8
    ELSE 3

Backoff_NoCooldown(b, a, att) ==
    IF Accepted(b, a) THEN (IF b = "selenium" THEN 0 ELSE REQUEST_DELAY)
    ELSE IF b # "selenium" /\ a = "429" THEN 60 * (att + 1)
    ELSE IF b = "cloudscraper" /\ a = "403" THEN REQUEST_DELAY * 3
    ELSE REQUEST_DELAY * 2

Backoff_Flat403(b, a, att) ==
    IF Accepted(b, a) THEN REQUEST_DELAY
    ELSE IF b # "selenium" /\ a = "429" THEN 60 * (att + 1)
    ELSE REQUEST_DELAY * 2

\* The time.sleep that follows the classification of the answer.
Backoff(b, a, att) ==
    IF Accepted(b, a) THEN REQUEST_DELAY
    ELSE IF b # "selenium" /\ a = "429" THEN 60 * (att + 1)
    ELSE IF b = "cloudscraper" /\ a = "403" THEN REQUEST_DELAY * 3
    ELSE REQUEST_DELAY * 2

Fallback_Same(b, hasCs, hasSel) ==
    IF b = "cloudscraper" /\ hasSel THEN "cloudscraper"
    ELSE IF b = "requests" /\ hasCs THEN "cloudscraper"
    ELSE "none"

Fallback_Ring(b, hasCs, hasSel) ==
    IF b = "cloudscraper" /\ hasSel THEN "selenium"
    ELSE IF b = "requests" /\ hasCs THEN "cloudscraper"
    ELSE IF b = "selenium" THEN "requests"
    ELSE "none"

Fallback_Back(b, hasCs, hasSel) ==
    IF b = "requests" /\ hasCs THEN "cloudscraper"
    ELSE IF b = "cloudscraper" THEN "requests"
    ELSE "none"

\* The backend fetch_page falls back to when backend b gave no result.
Fallback(b, hasCs, hasSel) ==
    IF b = "cloudscraper" /\ hasSel THEN "selenium"
    ELSE IF b = "requests" /\ hasCs THEN "cloudscraper"
    ELSE "none"

\* fetch_page falls back only inside the branch of the backend the call
\* started on, and the branch has no fallback of the fallback: the backend to
\* switch to when the loop on `active` gave nothing, in a call begun on `first`.
NextBackend_Chain(active, first, hasCs, hasSel) == Fallback(active, hasCs, hasSel)

NextBackend(active, first, hasCs, hasSel) ==
    IF active = first THEN Fallback(active, hasCs, hasSel) ELSE "none"

\* init_fetcher's choice of backend for "auto".
AutoBackend(hasCs, hasSel) ==
    IF hasCs THEN "cloudscraper" ELSE IF hasSel THEN "selenium" ELSE "requests"

init_fetcher_CapabilityFirst(backend, dir, hasCs, hasSel) ==
    LET chosen == IF backend = "auto" THEN AutoBackend(hasCs, hasSel) ELSE backend
    IN IF \/ chosen = "cloudscraper" /\ ~hasCs
          \/ chosen = "selenium" /\ ~hasSel
          \/ chosen \notin Network
       THEN "exit"
       ELSE IF dir # "none" THEN "offline"
       ELSE chosen

\* init_fetcher(backend, html_dir): the value _fetcher_type gets, or "exit"
\* when it ends in sys.exit(1).
init_fetcher(backend, dir, hasCs, hasSel) ==
    LET chosen == IF backend = "auto" THEN AutoBackend(hasCs, hasSel) ELSE backend
    IN IF dir # "none" THEN "offline"
       ELSE IF \/ chosen = "cloudscraper" /\ ~hasCs
               \/ chosen = "selenium" /\ ~hasSel
               \/ chosen \notin Network
       THEN "exit"
       ELSE chosen

ZeroTries == [b \in Network |-> 0]

\* init_fetcher on a network backend: a new session object (create_scraper(),
\* uc.Chrome() or requests.Session()) is created and bound to _fetcher_session.
NewSession(created, b) == Append(created, [backend |-> b, open |-> TRUE])

\* _load_offline: the first candidate that is a file, 0 when there is none.
RECURSIVE FirstFile(_, _)
FirstFile(cands, i) ==
    IF i > Len(cands) THEN 0
    ELSE IF cands[i] THEN i
    ELSE FirstFile(cands, i + 1)

\* All sequences over S of length at most n.
SeqsUpTo(S, n) == UNION {[1..k -> S] : k \in 0..n}

FetchInit ==
    /\ pc = "start"
    /\ requested = "none"
    /\ HAS_CLOUDSCRAPER \in BOOLEAN
    /\ HAS_SELENIUM \in BOOLEAN
    /\ fetcher_type = "none"
    /\ html_dir = "none"
    /\ loopOn = "none"
    /\ attempt = 0
    /\ primary = "none"
    /\ tries = ZeroTries
    /\ lastBackend = "none"
    /\ lastStatus = "none"
    /\ lastSleep = 0
    /\ gapAtGet = NoGap
    /\ sinceSuccess = NoGap
    /\ outcome = "none"
    /\ candidates = <<>>
    /\ offlineResult = 0
    /\ sessions = <<>>
    /\ fetcher_session = 0

\* main: init_fetcher(args.fetcher, args.html_dir).
InitFetcher ==
    /\ pc = "start"
    /\ \E backend \in Requested, dir \in {"none", "dir", "nodir"} :
         LET type == init_fetcher(backend, dir, HAS_CLOUDSCRAPER, HAS_SELENIUM)
         IN /\ requested' = backend
            /\ html_dir' = dir
            /\ IF type = "exit"
               THEN pc' = "exit" /\ UNCHANGED fetcher_type
               ELSE pc' = "idle" /\ fetcher_type' = type
            /\ IF type \in Network
               THEN /\ sessions' = NewSession(sessions, type)
                    /\ fetcher_session' = Len(sessions) + 1
               ELSE UNCHANGED <<sessions, fetcher_session>>
    /\ UNCHANGED <<HAS_CLOUDSCRAPER, HAS_SELENIUM, loopOn, attempt, primary, tries,
                   lastBackend, lastStatus, lastSleep, gapAtGet, sinceSuccess,
                   outcome, candidates, offlineResult>>
    /\ UNCHANGED besidesFetch

\* fetch_page in offline mode: _load_offline(url). The file system answers
\* whether the exact name is a file and which fuzzy-matched paths are files.
FetchOffline ==
    /\ pc = "idle"
    /\ fetcher_type = "offline"
    /\ \E exact \in BOOLEAN, fuzzy \in SeqsUpTo(BOOLEAN, MaxFiles) :
         LET cands == <<exact>> \o (IF html_dir = "dir" THEN fuzzy ELSE <<>>)
         IN /\ candidates' = cands
            /\ offlineResult' = FirstFile(cands, 1)
            /\ outcome' = IF FirstFile(cands, 1) = 0 THEN "failure" ELSE "content"
    /\ primary' = "offline"
    /\ tries' = ZeroTries
    /\ UNCHANGED <<pc, requested, HAS_CLOUDSCRAPER, HAS_SELENIUM, fetcher_type, html_dir,
                   loopOn, attempt, lastBackend, lastStatus, lastSleep, gapAtGet,
                   sinceSuccess, sessions, fetcher_session>>
    /\ UNCHANGED besidesFetch

\* fetch_page on a network backend: entry, up to the first GET.
FetchStart ==
    /\ pc = "idle"
    /\ fetcher_type \in Network
    /\ pc' = "loop"
    /\ loopOn' = fetcher_type
    /\ primary' = fetcher_type
    /\ attempt' = 0
    /\ tries' = ZeroTries
    /\ outcome' = "none"
    /\ lastBackend' = "none"
    /\ lastStatus' = "none"
    /\ lastSleep' = 0
    /\ UNCHANGED <<requested, HAS_CLOUDSCRAPER, HAS_SELENIUM, fetcher_type, html_dir,
                   gapAtGet, sinceSuccess, candidates, offlineResult,
                   sessions, fetcher_session>>
    /\ UNCHANGED besidesFetch

\* One iteration of the loop of _fetch_with_<b>: the GET, its answer a, the
\* sleep, and what follows without another GET: the next iteration, or the
\* return to fetch_page, which returns the body, falls back (init_fetcher on the
\* fallback backend, then its loop) or gives up.
Attempt(b) ==
    /\ pc = "loop"
    /\ loopOn = b
    /\ attempt < Retries
    /\ \E a \in Answers(b) :
         LET slept == PreSleep(b, a) + Backoff(b, a, attempt)
             loopEnds == Accepted(b, a) \/ attempt + 1 >= Retries
             gotBody == Accepted(b, a) /\ Truthy(a)
             fb == NextBackend(b, primary, HAS_CLOUDSCRAPER, HAS_SELENIUM)
         IN /\ tries' = [tries EXCEPT ![b] = @ + 1]
            /\ lastBackend' = b
            /\ lastStatus' = a
            /\ lastSleep' = Backoff(b, a, attempt)
            /\ gapAtGet' = sinceSuccess
            /\ sinceSuccess' =
                 IF Accepted(b, a) THEN Backoff(b, a, attempt)
                 ELSE IF sinceSuccess = NoGap THEN NoGap
                 ELSE Min(ElapsedCap, sinceSuccess + slept)
            /\ IF ~loopEnds
               THEN /\ attempt' = attempt + 1
                    /\ UNCHANGED <<pc, loopOn, fetcher_type, outcome, sessions, fetcher_session>>
               ELSE IF gotBody
               THEN /\ pc' = "idle"
                    /\ loopOn' = "none"
                    /\ attempt' = 0
                    /\ outcome' = "content"
                    /\ UNCHANGED <<fetcher_type, sessions, fetcher_session>>
               ELSE IF fb # "none"
               THEN /\ fetcher_type' = init_fetcher(fb, "none", HAS_CLOUDSCRAPER, HAS_SELENIUM)
                    /\ sessions' = NewSession(sessions, fb)
                    /\ fetcher_session' = Len(sessions) + 1
                    /\ loopOn' = fb
                    /\ attempt' = 0
                    /\ UNCHANGED <<pc, outcome>>
               ELSE /\ pc' = "idle"
                    /\ loopOn' = "none"
                    /\ attempt' = 0
                    /\ outcome' = "failure"
                    /\ UNCHANGED <<fetcher_type, sessions, fetcher_session>>
    /\ UNCHANGED <<requested, HAS_CLOUDSCRAPER, HAS_SELENIUM, html_dir, primary,
                   candidates, offlineResult>>
    /\ UNCHANGED besidesFetch

AttemptCloudscraper == Attempt("cloudscraper")
AttemptSelenium == Attempt("selenium")
AttemptRequests == Attempt("requests")

\* The end of the run with _cleanup_selenium registered (atexit.register in
\* init_fetcher on selenium): the driver is quit when selenium is the active
\* backend and _fetcher_session is set, and _fetcher_session becomes None.
CleanupSelenium ==
    /\ pc = "idle"
    /\ \E i \in 1..Len(sessions) : sessions[i].backend = "selenium"
    /\ pc' = "ended"
    /\ IF fetcher_type = "selenium" /\ fetcher_session # 0
       THEN /\ sessions' = [sessions EXCEPT ![fetcher_session].open = FALSE]
            /\ fetcher_session' = 0
       ELSE UNCHANGED <<sessions, fetcher_session>>
    /\ UNCHANGED <<requested, HAS_CLOUDSCRAPER, HAS_SELENIUM, fetcher_type, html_dir,
                   loopOn, attempt, primary, tries, lastBackend, lastStatus, lastSleep,
                   gapAtGet, sinceSuccess, outcome, candidates, offlineResult>>
    /\ UNCHANGED besidesFetch

RosterIdle ==
    /\ rpc = "pool" /\ pool = <<>> /\ appended = 0
    /\ selection = <<>> /\ roster = <<>> /\ roster_mapped = <<>>
StatsIdle ==
    /\ spc = "input" /\ player = "none" /\ tables = "none" /\ stats = "none"
ScaleIdle ==
    /\ scalePc = "input" /\ scaleArgs = "none" /\ scaleResult = "none"
NameIdle ==
    /\ namePc = "input" /\ full_name = <<>> /\ parts = <<>>
    /\ significant = <<>> /\ chosen_token = <<>> /\ name_8char = <<>>

RunIdle ==
    /\ runPc = "teamlist" /\ skip_extra_stats = FALSE /\ teams = 0 /\ idx = 0
    /\ step = "none" /\ pagesRequested = {} /\ failedTeamList = FALSE
    /\ failedStandard = {} /\ failedExtra = {} /\ all_teams = <<>>
    /\ cache = {} /\ output = <<>>

Init == FetchInit /\ RosterIdle /\ StatsIdle /\ ScaleIdle /\ NameIdle /\ RunIdle

Next ==
    \/ InitFetcher
    \/ FetchOffline
    \/ FetchStart
    \/ AttemptCloudscraper
    \/ AttemptSelenium
    \/ AttemptRequests
    \/ CleanupSelenium

Spec == Init /\ [][Next]_vars

\* The loops of _fetch_with_* run to their end: a GET returns (a response, a
\* page or an exception) and the iteration that follows it is taken.
SpecFair ==
    Init /\ [][Next]_vars
         /\ WF_vars(AttemptCloudscraper)
         /\ WF_vars(AttemptSelenium)
         /\ WF_vars(AttemptRequests)

(***************************************************************************)
(* Roster selection                                                        *)
(***************************************************************************)
PLAYERS_PER_TEAM == 20

\* Bound of the model: rows appended to a squad before select_roster runs.
MaxExtra == 2

Has_LastOnly(p, tag) ==
    Len(p.position) > 0 /\ p.position[Len(p.position)] = tag

\* A position tag is the sequence of the category codes it contains
\* ("DF,MF" is <<"DF", "MF">>, an empty or unknown tag is <<>>);
\* `tag in p.get("position", "").upper()` is Has(p, tag).
Has(p, tag) == \E i \in 1..Len(p.position) : p.position[i] = tag

\* A player row: id is the identity of the dict object (the code never reads
\* it), name/position/minutes are the fields select_roster reads.
MkPlayer(i, nm, tag, mins) == [id |-> i, name |-> nm, position |-> tag, minutes |-> mins]

MkSquad(tags, mins) ==
    [i \in 1..Len(tags) |-> MkPlayer(i, i, tags[i], mins[i])]

\* A squad of 24 in page order: 3 GK, 7 DF, 8 MF, 6 FW, two ties on minutes.
FullSquad ==
    MkSquad(
      << <<"MF">>, <<"GK">>, <<"DF">>, <<"FW">>, <<"DF">>, <<"MF">>,
         <<"FW">>, <<"DF">>, <<"MF">>, <<"GK">>, <<"DF">>, <<"MF">>,
         <<"FW">>, <<"MF">>, <<"DF">>, <<"FW">>, <<"MF">>, <<"DF">>,
         <<"FW">>, <<"MF">>, <<"GK">>, <<"DF">>, <<"MF">>, <<"FW">> >>,
      << 2800, 3420, 3100, 2900, 2800, 3000,
         2400, 2500, 2300, 300, 2200, 2000,
         1900, 1700, 1800, 1500, 1400, 1200,
         1000, 900, 0, 250, 200, 1000 >>)

\* A squad of 10: 1 GK, 3 DF, 4 MF, 2 FW, every bucket below its quota.
ThinSquad ==
    MkSquad(
      << <<"FW">>, <<"MF">>, <<"DF">>, <<"GK">>, <<"MF">>,
         <<"DF">>, <<"MF">>, <<"FW">>, <<"DF">>, <<"MF">> >>,
      << 900, 2700, 2700, 3060, 1500, 2000, 1500, 2100, 450, 30 >>)

\* A squad of 19, one short of the roster size: 1 GK, 4 DF, 8 MF, 5 FW and
\* one row whose tag matches no category.
NearSquad ==
    MkSquad(
      << <<"MF">>, <<"FW">>, <<"DF">>, <<"MF">>, <<"GK">>, <<"MF">>, <<"FW">>,
         <<"DF">>, <<"MF">>, <<>>, <<"FW">>, <<"MF">>, <<"DF">>, <<"MF">>,
         <<"FW">>, <<"MF">>, <<"DF">>, <<"FW">>, <<"MF">> >>,
      << 3300, 3200, 3100, 3000, 2900, 2800, 2700,
         2600, 2500, 2400, 2300, 2200, 2100, 2000,
         1900, 1800, 1700, 1600, 100 >>)

Squads == {<<>>, ThinSquad, NearSquad, FullSquad}

ExtraTags == { <<"GK">>, <<"DF">>, <<"MF">>, <<"FW">>,
               <<"DF", "MF">>, <<"FW", "MF">>, <<>> }
ExtraMinutes == {1500, 5000}

Take(s, n) == SubSeq(s, 1, Min(n, Len(s)))

\* sorted(players, key=minutes, reverse=True): stable, larger minutes first.
\* The place of p in a sorted list: before the first player with fewer minutes.
RECURSIVE PlaceByMinutes(_, _, _)
PlaceByMinutes(sorted, p, i) ==
    IF i > Len(sorted) \/ sorted[i].minutes < p.minutes THEN i
    ELSE PlaceByMinutes(sorted, p, i + 1)

InsertAt(s, k, p) == SubSeq(s, 1, k - 1) \o <<p>> \o SubSeq(s, k, Len(s))

InsertByMinutes(sorted, p) == InsertAt(sorted, PlaceByMinutes(sorted, p, 1), p)

RECURSIVE SortByMinutes(_, _)
SortByMinutes(players, n) ==
    IF n = 0 THEN <<>>
    ELSE InsertByMinutes(SortByMinutes(players, n - 1), players[n])

RECURSIVE Fill_MatchedOnly(_, _, _, _)
Fill_MatchedOnly(by_minutes, i, ros, used) ==
    IF i > Len(by_minutes) \/ Len(ros) >= PLAYERS_PER_TEAM THEN ros
    ELSE IF by_minutes[i].name \notin used /\ by_minutes[i].position # <<>>
    THEN Fill_MatchedOnly(by_minutes, i + 1, Append(ros, by_minutes[i]),
                          used \cup {by_minutes[i].name})
    ELSE Fill_MatchedOnly(by_minutes, i + 1, ros, used)

\* The fill loop: walk by_minutes, append the players whose name is not used
\* yet, stop at PLAYERS_PER_TEAM.
RECURSIVE Fill(_, _, _, _)
Fill(by_minutes, i, ros, used) ==
    IF i > Len(by_minutes) \/ Len(ros) >= PLAYERS_PER_TEAM THEN ros
    ELSE IF by_minutes[i].name \notin used
    THEN Fill(by_minutes, i + 1, Append(ros, by_minutes[i]), used \cup {by_minutes[i].name})
    ELSE Fill(by_minutes, i + 1, ros, used)

\* pos_key: the index of the first tag of order = {"GK": 0, "DF": 1, "MF": 2,
\* "FW": 3} contained in the position, 2 when there is none.
pos_key(p) ==
    IF Has(p, "GK") THEN 0
    ELSE IF Has(p, "DF") THEN 1
    ELSE IF Has(p, "MF") THEN 2
    ELSE IF Has(p, "FW") THEN 3
    ELSE 2

\* roster.sort(key=pos_key) computes the key of every entry once, then sorts
\* the entries by key, stable, smaller key first.
Keyed(ros) == [i \in 1..Len(ros) |-> [key |-> pos_key(ros[i]), item |-> ros[i]]]

RECURSIVE PlaceByKey_Unstable(_, _, _)
PlaceByKey_Unstable(sorted, e, i) ==
    IF i > Len(sorted) \/ sorted[i].key >= e.key THEN i
    ELSE PlaceByKey_Unstable(sorted, e, i + 1)

\* The place of entry e in a sorted list: before the first entry with a larger key.
RECURSIVE PlaceByKey(_, _, _)
PlaceByKey(sorted, e, i) ==
    IF i > Len(sorted) \/ sorted[i].key > e.key THEN i
    ELSE PlaceByKey(sorted, e, i + 1)

InsertByKey(sorted, e) == InsertAt(sorted, PlaceByKey(sorted, e, 1), e)

RECURSIVE SortByKey(_, _)
SortByKey(keyed, n) ==
    IF n = 0 THEN <<>>
    ELSE InsertByKey(SortByKey(keyed, n - 1), keyed[n])

Items(keyed) == [i \in 1..Len(keyed) |-> keyed[i].item]

SortByPosKey(ros) == Items(SortByKey(Keyed(ros), Len(ros)))

\* The fill from the bucket picks on.
FillFrom(by_minutes, picks) ==
    Fill(by_minutes, 1, picks, {picks[i].name : i \in 1..Len(picks)})

\* The buckets gk, df, mf, fw and roster.extend of their first 2, 6, 7, 5.
Picks(by_minutes) ==
       Take(SelectSeq(by_minutes, LAMBDA p : Has(p, "GK")), 2)
    \o Take(SelectSeq(by_minutes, LAMBDA p : Has(p, "DF")), 6)
    \o Take(SelectSeq(by_minutes, LAMBDA p : Has(p, "MF")), 7)
    \o Take(SelectSeq(by_minutes, LAMBDA p : Has(p, "FW")), 5)

SelectedFrom(by_minutes) == FillFrom(by_minutes, Picks(by_minutes))

\* select_roster up to the final sort: bucket picks, then the fill.
Selected(players) == SelectedFrom(SortByMinutes(players, Len(players)))

\* select_roster from the final sort on: roster.sort(key=pos_key), then
\* roster[:PLAYERS_PER_TEAM].
Reordered(ros) == Take(SortByPosKey(ros), PLAYERS_PER_TEAM)

\* select_roster(players).
select_roster(players) == Reordered(Selected(players))

RosterInit ==
    /\ rpc = "pool"
    /\ pool \in Squads
    /\ appended = 0
    /\ selection = <<>>
    /\ roster = <<>>
    /\ roster_mapped = <<>>

\* scrape_standard_stats: players.append(p) for one more row of the table; the
\* row may carry the name of an earlier row.
AppendPlayer ==
    /\ rpc = "pool"
    /\ appended < MaxExtra
    /\ appended' = appended + 1
    /\ \E tag \in ExtraTags, mins \in ExtraMinutes, nm \in {1, Len(pool) + 1} :
         pool' = Append(pool, MkPlayer(Len(pool) + 1, nm, tag, mins))
    /\ UNCHANGED <<rpc, selection, roster, roster_mapped>>
    /\ UNCHANGED besidesRoster

\* main: roster = select_roster(standard).
SelectRoster ==
    /\ rpc = "pool"
    /\ rpc' = "selected"
    /\ selection' = Selected(pool)
    /\ roster' = Reordered(selection')
    /\ UNCHANGED <<pool, appended, roster_mapped>>
    /\ UNCHANGED besidesRoster

FetchIdle ==
    /\ pc = "start" /\ requested = "none"
    /\ HAS_CLOUDSCRAPER = FALSE /\ HAS_SELENIUM = FALSE
    /\ fetcher_type = "none" /\ html_dir = "none" /\ loopOn = "none"
    /\ attempt = 0 /\ primary = "none" /\ tries = ZeroTries
    /\ lastBackend = "none" /\ lastStatus = "none" /\ lastSleep = 0
    /\ gapAtGet = NoGap /\ sinceSuccess = NoGap /\ outcome = "none"
    /\ candidates = <<>> /\ offlineResult = 0
    /\ sessions = <<>> /\ fetcher_session = 0

InitRoster == FetchIdle /\ RosterInit /\ StatsIdle /\ ScaleIdle /\ NameIdle /\ RunIdle

NextRoster ==
    \/ AppendPlayer
    \/ SelectRoster

SpecRoster == InitRoster /\ [][NextRoster]_vars

(***************************************************************************)
(* Stat mapping                                                            *)
(***************************************************************************)
POS_GK == 0
POS_DF == 4
POS_MF == 8
POS_FW == 13

\* Python floats are modelled as exact rationals [n, d] with d > 0, reduced.
Abs(a) == IF a < 0 THEN 0 - a ELSE a

RECURSIVE GCD(_, _)
GCD(a, b) == IF b = 0 THEN a ELSE GCD(b, a % b)

Rat(n, d) ==
    LET g == GCD(Abs(n), d)
    IN [n |-> IF n < 0 THEN 0 - (Abs(n) \div g) ELSE n \div g, d |-> d \div g]
RInt(k) == [n |-> k, d |-> 1]
RAdd(a, b) == Rat(a.n * b.d + b.n * a.d, a.d * b.d)
RSub(a, b) == Rat(a.n * b.d - b.n * a.d, a.d * b.d)
RMul(a, b) == Rat(a.n * b.n, a.d * b.d)
RLe(a, b) == a.n * b.d <= b.n * a.d
RMax(a, b) == IF RLe(b, a) THEN a ELSE b
RMin(a, b) == IF RLe(a, b) THEN a ELSE b

\* int(val): truncation toward zero.
Trunc(a) == IF a.n >= 0 THEN a.n \div a.d ELSE 0 - ((0 - a.n) \div a.d)

clamp_NoFloor(val) == Min(9, Trunc(val))

clamp_NoCeiling(val) == Max(0, Trunc(val))

\* clamp(val, lo=0, hi=9) == max(lo, min(hi, int(val))); every call uses the
\* default lo and hi.
clamp(val) == Max(0, Min(9, Trunc(val)))

scale_Unclamped(value, src_min, src_max) ==
    IF src_max <= src_min THEN Rat(1, 2)
    ELSE Rat(value.n - src_min * value.d, value.d * (src_max - src_min))

\* scale(value, src_min, src_max), value a rational, the range integers.
scale(value, src_min, src_max) ==
    IF src_max <= src_min THEN Rat(1, 2)
    ELSE RMax(RInt(0),
              RMin(RInt(1),
                   Rat(value.n - src_min * value.d,
                       value.d * (src_max - src_min))))

\* dict.get(key, default) on a row (a record, <<>> for the empty dict).
Get(row, key, default) == IF key \in DOMAIN row THEN row[key] ELSE default

\* table.get(player["name"], {}).
Row(table, name) == IF name \in DOMAIN table THEN table[name] ELSE <<>>

\* compute_issd_stats(player, shoot, passing, defense, poss, keeper).
compute_issd_stats(pl, shoot, passing, defense, poss, keeper) ==
    LET minutes == Max(pl.minutes, 1)
        games == Max(pl.games, 1)
        shoot_d == Row(shoot, pl.name)
        pass_d == Row(passing, pl.name)
        def_d == Row(defense, pl.name)
        poss_d == Row(poss, pl.name)
        keep_d == Row(keeper, pl.name)
        is_gk == Has(pl, "GK")
        is_df == Has(pl, "DF")
        is_mf == Has(pl, "MF")
        is_fw == Has(pl, "FW")
        pos_byte == IF is_gk THEN POS_GK
                    ELSE IF is_df THEN POS_DF
                    ELSE IF is_fw THEN POS_FW
                    ELSE POS_MF
        \* SPEED: per90 = minutes / 90.0, carries_p90 = carries / per90
        carries == Get(poss_d, "carries", 0)
        carries_p90 == Rat(carries * 90, minutes)
        speed_0 == RAdd(RMul(scale(carries_p90, 5, 55), RInt(7)), RInt(2))
        speed_1 == IF is_fw THEN RAdd(speed_0, RInt(1)) ELSE speed_0
        speed_raw == IF is_gk THEN RMax(RInt(2), RSub(speed_1, RInt(3))) ELSE speed_1
        speed == clamp(speed_raw)
        \* KICK POWER
        goals == pl.goals
        xg == pl.xg
        sot == Get(shoot_d, "shots_on_target", 0)
        kp_0 == RAdd(RMul(RAdd(RAdd(RMul(scale(RInt(goals), 0, 15), Rat(40, 100)),
                                    RMul(scale(xg, 0, 12), Rat(30, 100))),
                               RMul(scale(RInt(sot), 0, 40), Rat(30, 100))),
                          RInt(8)),
                     RInt(1))
        kp_raw == IF is_gk THEN RInt(3)
                  ELSE IF is_df THEN RMax(RInt(2), RSub(kp_0, RInt(1)))
                  ELSE kp_0
        kick_power == clamp(kp_raw)
        \* DRIBBLING
        drib_won == Get(poss_d, "dribbles_completed", 0)
        drib_att == Get(poss_d, "dribbles_attempted", 0)
        drib_pct == IF drib_att > 0 THEN Rat(drib_won * 100, drib_att) ELSE RInt(50)
        drib_0 == RAdd(RMul(RAdd(RMul(scale(RInt(drib_won), 0, 60), Rat(6, 10)),
                                 RMul(scale(drib_pct, 30, 80), Rat(4, 10))),
                            RInt(8)),
                       RInt(1))
        drib_raw == IF is_gk THEN RInt(2) ELSE drib_0
        dribbling == clamp(drib_raw)
        \* HEADING
        heading_base == IF is_df THEN 6 ELSE IF is_fw THEN 5 ELSE IF is_gk THEN 3 ELSE 4
        heading == clamp(RAdd(RInt(heading_base), Rat(goals * 12, 100)))
        \* STAMINA
        min_per_game == Rat(minutes, games)
        stamina == clamp(RAdd(RMul(scale(min_per_game, 20, 90), RInt(7)), RInt(2)))
        \* DEFENSE
        tkl == Get(def_d, "tackles", 0)
        ints == Get(def_d, "interceptions", 0)
        blk == Get(def_d, "blocks", 0)
        def_total == tkl + ints + blk
        def_0 == RAdd(RMul(scale(RInt(def_total), 0, 90), RInt(7)), RInt(2))
        sv_pct == Get(keep_d, "save_pct", RInt(65))
        cs == Get(keep_d, "clean_sheets", 0)
        def_raw == IF is_gk
                   THEN RAdd(RAdd(RMul(scale(sv_pct, 55, 85), RInt(5)),
                                  RMul(scale(RInt(cs), 0, 15), RInt(3))),
                             RInt(2))
                   ELSE IF is_fw THEN RMax(RInt(1), RSub(def_0, RInt(2)))
                   ELSE IF is_df THEN RMin(RInt(9), RAdd(def_0, RInt(1)))
                   ELSE def_0
        defense_stat == clamp(def_raw)
        \* PASSING
        pass_pct == Get(pass_d, "pass_completion_pct", RInt(70))
        prog_pass == Get(pass_d, "progressive_passes", 0)
        assists == pl.assists
        pass_0 == RAdd(RMul(RAdd(RAdd(RMul(scale(pass_pct, 55, 92), Rat(4, 10)),
                                      RMul(scale(RInt(prog_pass), 0, 80), Rat(3, 10))),
                                 RMul(scale(RInt(assists), 0, 10), Rat(3, 10))),
                            RInt(8)),
                       RInt(1))
        pass_raw == IF is_gk THEN RMax(RInt(2), RSub(pass_0, RInt(2))) ELSE pass_0
        passing_stat == clamp(pass_raw)
        \* AGGRESSION: min(9, int(yc * 0.6 + rc * 2.5) + 2)
        yc == pl.yellow_cards
        rc == pl.red_cards
        agg_raw == Min(9, Trunc(Rat(yc * 6 + rc * 25, 10)) + 2)
        aggression == clamp(RInt(agg_raw))
        \* ((a & 0x0F) << 4) | (b & 0x0F)
        byte1 == (speed % 16) * 16 + (kick_power % 16)
        byte2 == (dribbling % 16) * 16 + (heading % 16)
        byte3 == (stamina % 16) * 16 + (defense_stat % 16)
        byte4 == (passing_stat % 16) * 16 + (aggression % 16)
    IN [pos_byte |-> pos_byte,
        bytes |-> <<pos_byte, byte1, byte2, byte3, byte4, 0, 0, 0>>,
        speed |-> speed,
        kick_power |-> kick_power,
        dribbling |-> dribbling,
        heading |-> heading,
        stamina |-> stamina,
        defense |-> defense_stat,
        passing |-> passing_stat,
        aggression |-> aggression]

\* The inputs compute_issd_stats is applied to: a player row of the standard
\* table and the five supplementary tables, each empty, without the player or
\* with a row of the player. Values are zero, negative, ordinary and very large.
StatTags == { <<"GK">>, <<"DF">>, <<"MF">>, <<"FW">>, <<"FW", "MF">>,
              <<"DF", "FW">>, <<"GK", "DF">>, <<>> }
PlayTimes == { <<0, 0>>, <<90, 1>>, <<3420, 38>>, <<0 - 50, 0 - 2>>, <<100000, 1>> }
Attacks == { <<0, RInt(0), 0>>, <<7, Rat(65, 10), 4>>,
             <<0 - 100, Rat(300, 10), 0 - 1>>, <<100000, Rat(0 - 10, 10), 20>> }
Cards == { <<0, 0>>, <<4, 1>>, <<0 - 4, 0 - 1>>, <<100000, 3>> }

StatPlayers ==
    { [name |-> 1, position |-> tag, minutes |-> t[1], games |-> t[2],
       goals |-> a[1], xg |-> a[2], assists |-> a[3],
       yellow_cards |-> c[1], red_cards |-> c[2]] :
      tag \in StatTags, t \in PlayTimes, a \in Attacks, c \in Cards }

\* A table holding one row for player `nm`.
TableOf(nm, row) == [k \in {nm} |-> row]

ShootTables ==
    { <<>>, TableOf(1, [shots_on_target |-> 25]),
      TableOf(1, [shots_on_target |-> 100000]) }
PassingTables ==
    { <<>>,
      TableOf(1, [pass_completion_pct |-> Rat(855, 10), progressive_passes |-> 40]),
      TableOf(1, [pass_completion_pct |-> Rat(0 - 5, 10), progressive_passes |-> 100000]) }
DefenseTables ==
    { <<>>,
      TableOf(1, [tackles |-> 30, interceptions |-> 0 - 5, blocks |-> 100000]) }
PossTables ==
    { <<>>,
      TableOf(1, [carries |-> 1710, dribbles_completed |-> 20, dribbles_attempted |-> 45]),
      TableOf(1, [carries |-> 0 - 100000, dribbles_completed |-> 100000,
                  dribbles_attempted |-> 0]) }
KeeperTables ==
    { TableOf(2, [save_pct |-> Rat(999, 10), clean_sheets |-> 1]),
      TableOf(1, [save_pct |-> Rat(723, 10), clean_sheets |-> 100000]) }

StatTables ==
    [shoot : ShootTables, passing : PassingTables, defense : DefenseTables,
     poss : PossTables, keeper : KeeperTables]

StatsInit ==
    /\ spc = "input"
    /\ player \in StatPlayers
    /\ tables \in StatTables
    /\ stats = "none"

\* main: stats = compute_issd_stats(p, shoot, passing, defense, poss, keeper).
ComputeStats ==
    /\ spc = "input"
    /\ spc' = "computed"
    /\ stats' = compute_issd_stats(player, tables.shoot, tables.passing,
                                   tables.defense, tables.poss, tables.keeper)
    /\ UNCHANGED <<player, tables>>
    /\ UNCHANGED besidesStats

InitStats == FetchIdle /\ RosterIdle /\ StatsInit /\ ScaleIdle /\ NameIdle /\ RunIdle

NextStats == ComputeStats

SpecStats == InitStats /\ [][NextStats]_vars

(***************************************************************************)
(* The mapped roster: select_roster, then compute_issd_stats per entry     *)
(***************************************************************************)
\* Bound of the model: rows appended to a squad of a mapped pool.
MaxMappedExtra == 1

\* A row of the standard table as compute_issd_stats reads it. The rows of
\* the pools carry name, position and minutes; the other columns are 0, what
\* player.get(..., 0) gives for a column the row lacks.
StandardRow(p) ==
    [name |-> p.name, position |-> p.position, minutes |-> p.minutes,
     games |-> 0, goals |-> 0, xg |-> RInt(0), assists |-> 0,
     yellow_cards |-> 0, red_cards |-> 0]

\* roster_mapped: for every roster entry its position and the stat_bytes of
\* compute_issd_stats, with the supplementary tables empty.
MapRoster(ros) ==
    [i \in 1..Len(ros) |->
       [position |-> ros[i].position,
        stat_bytes |-> compute_issd_stats(StandardRow(ros[i]),
                                          <<>>, <<>>, <<>>, <<>>, <<>>).bytes]]

\* A squad with up to n more rows, each with a new name.
RECURSIVE Extended(_, _)
Extended(base, n) ==
    IF n = 0 THEN {base}
    ELSE LET shorter == Extended(base, n - 1)
         IN shorter \cup
            { Append(sq, MkPlayer(Len(sq) + 1, Len(sq) + 1, tag, mins)) :
                sq \in {q \in shorter : Len(q) = Len(base) + n - 1},
                tag \in ExtraTags, mins \in ExtraMinutes }

MappedPools == UNION {Extended(base, MaxMappedExtra) : base \in Squads}

MappedInit ==
    /\ rpc = "pool"
    /\ pool \in MappedPools
    /\ appended = 0
    /\ selection = <<>>
    /\ roster = <<>>
    /\ roster_mapped = <<>>

\* main, the roster of one team: roster = select_roster(standard), then
\* compute_issd_stats for every p in roster.
MapTeam ==
    /\ rpc = "pool"
    /\ rpc' = "mapped"
    /\ selection' = Selected(pool)
    /\ roster' = Reordered(selection')
    /\ roster_mapped' = MapRoster(roster')
    /\ UNCHANGED <<pool, appended>>
    /\ UNCHANGED besidesRoster

InitMapped ==
    /\ FetchIdle /\ StatsIdle /\ ScaleIdle /\ NameIdle /\ RunIdle
    /\ MappedInit

NextMapped == MapTeam

SpecMapped == InitMapped /\ [][NextMapped]_vars

(***************************************************************************)
(* scale on its own                                                        *)
(***************************************************************************)
\* The triples scale is applied to: values below, at, inside and above the
\* range, and ranges that are proper (src_min < src_max), empty
\* (src_min = src_max) and reversed (src_min > src_max).
ScaleValues == {Rat(n, 2) : n \in (0 - 6)..24}
ScaleEnds == {0 - 2, 0, 5, 10}

ScaleInit ==
    /\ scalePc = "input"
    /\ scaleArgs \in [value : ScaleValues, src_min : ScaleEnds, src_max : ScaleEnds]
    /\ scaleResult = "none"

\* A call scale(value, src_min, src_max).
ApplyScale ==
    /\ scalePc = "input"
    /\ scalePc' = "applied"
    /\ scaleResult' = scale(scaleArgs.value, scaleArgs.src_min, scaleArgs.src_max)
    /\ UNCHANGED scaleArgs
    /\ UNCHANGED besidesScale

InitScale == FetchIdle /\ RosterIdle /\ StatsIdle /\ ScaleInit /\ NameIdle /\ RunIdle

NextScale == ApplyScale

SpecScale == InitScale /\ [][NextScale]_vars

(***************************************************************************)
(* Name formatting                                                         *)
(***************************************************************************)
NAME_WIDTH == 8

\* Bound of the model: tokens of a composed input name.
MaxTokens == 3

\* A string is a sequence of characters. The characters of the encoding table
\* are written as themselves; characters outside of it have names: "aacute"
\* is a-acute, "szlig" the sharp s, "tab" and "nbsp" are whitespace other than
\* the blank, "hash", "comma" and "lparen" are punctuation the table lacks.

\* The keys of TALL_MENU_TEXT_ENCODING (format_name_8char reads only the keys).
TALL_MENU_TEXT_ENCODING ==
    {" ", "!", ".", "+", "-", "%", "/", "'", "~", ":", "?",
     "0", "1", "2", "3", "4", "5", "6", "7", "8", "9",
     "A", "B", "C", "D", "E", "F", "G", "H", "I", "J", "K", "L", "M",
     "N", "O", "P", "Q", "R", "S", "T", "U", "V", "W", "X", "Y", "Z",
     "a", "b", "c", "d", "e", "f", "g", "h", "i", "j", "k", "l", "m",
     "n", "o", "p", "q", "r", "s", "t", "u", "v", "w", "x", "y", "z"}

\* ACCENT_MAP, the entries of the characters the inputs use.
ACCENT_MAP ==
    [c \in {"aacute", "atilde", "eacute", "iacute", "oacute", "uuml", "ccedil",
            "ntilde", "Aacute", "Eacute", "Ouml", "oslash", "szlig", "scedil",
            "Idot"} |->
       CASE c = "aacute" -> <<"a">>  [] c = "atilde" -> <<"a">>
         [] c = "eacute" -> <<"e">>  [] c = "iacute" -> <<"i">>
         [] c = "oacute" -> <<"o">>  [] c = "uuml" -> <<"u">>
         [] c = "ccedil" -> <<"c">>  [] c = "ntilde" -> <<"n">>
         [] c = "Aacute" -> <<"A">>  [] c = "Eacute" -> <<"E">>
         [] c = "Ouml" -> <<"O">>    [] c = "oslash" -> <<"o">>
         [] c = "szlig" -> <<"s", "s">>
         [] c = "scedil" -> <<"s">>  [] c = "Idot" -> <<"I">>]

\* The characters str.strip() and str.split() treat as whitespace.
Whitespace == {" ", "tab", "nbsp"}

UpperCase == <<"A", "B", "C", "D", "E", "F", "G", "H", "I", "J", "K", "L", "M",
               "N", "O", "P", "Q", "R", "S", "T", "U", "V", "W", "X", "Y", "Z">>
LowerCase == <<"a", "b", "c", "d", "e", "f", "g", "h", "i", "j", "k", "l", "m",
               "n", "o", "p", "q", "r", "s", "t", "u", "v", "w", "x", "y", "z">>

\* str.lower() on a string of encodable characters.
LowerChar(c) ==
    IF \E i \in 1..26 : UpperCase[i] = c
    THEN LowerCase[CHOOSE i \in 1..26 : UpperCase[i] = c]
    ELSE c
Lower(str) == [i \in 1..Len(str) |-> LowerChar(str[i])]

\* str.strip(): whitespace removed from both ends.
RECURSIVE LStrip(_)
LStrip(str) ==
    IF str # <<>> /\ Head(str) \in Whitespace THEN LStrip(Tail(str)) ELSE str
RECURSIVE RStrip(_)
RStrip(str) ==
    IF str # <<>> /\ str[Len(str)] \in Whitespace
    THEN RStrip(SubSeq(str, 1, Len(str) - 1))
    ELSE str
Strip(str) == RStrip(LStrip(str))

\* strip_accents(text): every key of ACCENT_MAP replaced by its value.
RECURSIVE strip_accents(_)
strip_accents(text) ==
    IF text = <<>> THEN <<>>
    ELSE (IF Head(text) \in DOMAIN ACCENT_MAP THEN ACCENT_MAP[Head(text)]
          ELSE <<Head(text)>>) \o strip_accents(Tail(text))

KeepEncodable_All(str) == str

\* "".join(c for c in name if c in TALL_MENU_TEXT_ENCODING)
KeepEncodable(str) == SelectSeq(str, LAMBDA c : c \in TALL_MENU_TEXT_ENCODING)

\* str.split(): the maximal runs of non-whitespace characters. `cur` is the
\* token being read, `acc` the tokens read so far.
RECURSIVE SplitFrom(_, _, _, _)
SplitFrom(str, i, cur, acc) ==
    IF i > Len(str) THEN (IF cur = <<>> THEN acc ELSE Append(acc, cur))
    ELSE IF str[i] \in Whitespace
    THEN SplitFrom(str, i + 1, <<>>, IF cur = <<>> THEN acc ELSE Append(acc, cur))
    ELSE SplitFrom(str, i + 1, Append(cur, str[i]), acc)
Split(str) == SplitFrom(str, 1, <<>>, <<>>)

\* skip = {"da", "de", "do", "dos", "das", "e", "di"}
skip == { <<"d", "a">>, <<"d", "e">>, <<"d", "o">>, <<"d", "o", "s">>,
          <<"d", "a", "s">>, <<"e">>, <<"d", "i">> }

\* parts: the tokens of the stripped, accent-free, encodable name.
NameParts(full) == Split(KeepEncodable(strip_accents(Strip(full))))

\* significant: parts without the skipped tokens, parts itself when none is left.
Significant(tokens) ==
    LET kept == SelectSeq(tokens, LAMBDA t : Lower(t) \notin skip)
    IN IF kept = <<>> THEN tokens ELSE kept

Choose_First(sig) ==
    IF Len(sig) = 1 THEN sig[1]
    ELSE IF Len(sig[1]) <= NAME_WIDTH THEN sig[1]
    ELSE <<sig[Len(sig)][1], ".">> \o SubSeq(sig[1], 1, Min(NAME_WIDTH - 2, Len(sig[1])))

\* chosen, before the truncation.
Choose(sig) ==
    IF Len(sig) = 1 THEN sig[1]
    ELSE IF Len(sig[Len(sig)]) <= NAME_WIDTH THEN sig[Len(sig)]
    ELSE <<sig[1][1], ".">>
         \o SubSeq(sig[Len(sig)], 1, Min(NAME_WIDTH - 2, Len(sig[Len(sig)])))

Blanks(n) == [i \in 1..n |-> " "]

\* chosen[:NAME_WIDTH], then the centre padding.
Pad(token) ==
    LET cut == SubSeq(token, 1, Min(NAME_WIDTH, Len(token)))
        pad_total == NAME_WIDTH - Len(cut)
        pad_left == pad_total \div 2
        pad_right == pad_total - pad_left
    IN Blanks(pad_left) \o cut \o Blanks(pad_right)

Unknown == <<"U", "n", "k", "n", "o", "w", "n", " ">>

\* format_name_8char(full_name).
format_name_8char(full) ==
    IF NameParts(full) = <<>> THEN Unknown
    ELSE Pad(Choose(Significant(NameParts(full))))

\* The names format_name_8char is applied to: the names of its docstring,
\* and every name of up to MaxTokens tokens of NameTokens joined by blanks,
\* bare or wrapped in whitespace.
NeymarFull ==
    <<"N", "e", "y", "m", "a", "r", " ", "d", "a", " ", "S", "i", "l", "v", "a", " ",
      "S", "a", "n", "t", "o", "s", " ", "J", "u", "n", "i", "o", "r">>
GabrielFull ==
    <<"G", "a", "b", "r", "i", "e", "l", " ", "B", "a", "r", "b", "o", "s", "a">>
EndrickFull ==
    <<"E", "n", "d", "r", "i", "c", "k", " ", "F", "e", "l", "i", "p", "e", " ",
      "M", "o", "r", "e", "i", "r", "a">>
ViniciusFull ==
    <<"V", "i", "n", "i", "c", "i", "u", "s", " ", "J", "o", "s", "e", " ", "d", "e", " ",
      "O", "l", "i", "v", "e", "i", "r", "a">>
DocNames == {NeymarFull, GabrielFull, EndrickFull, ViniciusFull}

NameTokens ==
    { <<"d", "a">>, <<"D", "e">>, <<"e">>, <<"J", "o">>,
      <<"S", "i", "l", "v", "a">>,
      <<"O", "l", "i", "v", "e", "i", "r", "a">>,
      <<"A", "l", "e", "x", "s", "a", "n", "d", "r", "o">>,
      <<"M", "uuml", "szlig", "l", "e", "r", "s", "o">>,
      <<"hash", "9">>,
      <<"lparen", "comma">> }

RECURSIVE Join(_)
Join(tokens) ==
    IF tokens = <<>> THEN <<>>
    ELSE IF Len(tokens) = 1 THEN tokens[1]
    ELSE tokens[1] \o <<" ">> \o Join(Tail(tokens))

Wraps == { <<<<>>, <<>>>>, <<<<" ">>, <<"tab", " ">>>>, <<<<"nbsp">>, <<>>>> }

NameInputs ==
    DocNames \cup
    { w[1] \o Join(ts) \o w[2] : ts \in SeqsUpTo(NameTokens, MaxTokens), w \in Wraps }

NameInit ==
    /\ namePc = "input"
    /\ full_name \in NameInputs
    /\ parts = <<>>
    /\ significant = <<>>
    /\ chosen_token = <<>>
    /\ name_8char = <<>>

\* main: "name_8char": format_name_8char(p["name"]).
FormatName ==
    /\ namePc = "input"
    /\ namePc' = "formatted"
    /\ parts' = NameParts(full_name)
    /\ significant' = IF parts' = <<>> THEN <<>> ELSE Significant(parts')
    /\ chosen_token' = IF parts' = <<>> THEN <<>> ELSE Choose(significant')
    /\ name_8char' = format_name_8char(full_name)
    /\ UNCHANGED full_name
    /\ UNCHANGED besidesName

InitName == FetchIdle /\ RosterIdle /\ StatsIdle /\ ScaleIdle /\ NameInit /\ RunIdle

NextName == FormatName

SpecName == InitName /\ [][NextName]_vars

(***************************************************************************)
(* The run of main over the team list                                      *)
(***************************************************************************)
\* Bound of the model: teams on the team-list page.
MaxTeams == 3

\* The supplementary pages of a team, in the order main fetches them.
ExtraPages == <<"shooting", "passing", "defense", "possession", "keeper">>

\* What a scrape_* call gives main: "failure" is fetch_page returning None,
\* "empty" a page without the table or without rows, "rows" a parsed table.
ScrapeResults == {"failure", "empty", "rows"}

KeepsTeam_ExtraFatal(page, result) == result = "rows"

\* main goes on with the team after the scrape of `page` gave `result`:
\* `if not standard: continue` for the standard page, nothing of the kind for
\* the supplementary pages.
KeepsTeam(page, result) == page = "standard" => result = "rows"

\* The page after `page` in an iteration, "map" when the fetches are done.
PageAfter(page, skipExtra) ==
    IF page = "standard" THEN (IF skipExtra THEN "map" ELSE ExtraPages[1])
    ELSE IF page = ExtraPages[Len(ExtraPages)] THEN "map"
    ELSE ExtraPages[(CHOOSE k \in 1..Len(ExtraPages) : ExtraPages[k] = page) + 1]

RunInit ==
    /\ runPc = "teamlist"
    /\ skip_extra_stats \in BOOLEAN
    /\ teams = 0
    /\ idx = 0
    /\ step = "none"
    /\ pagesRequested = {}
    /\ failedTeamList = FALSE
    /\ failedStandard = {}
    /\ failedExtra = {}
    /\ all_teams = <<>>
    /\ cache = {}
    /\ output = <<>>

\* main, step 1: teams = scrape_team_list(season); `if not teams: sys.exit(1)`.
\* found = 0 is a page without team rows.
ScrapeTeamList ==
    /\ runPc = "teamlist"
    /\ \E result \in {"failure", "rows"}, found \in 0..MaxTeams :
         LET n == IF result = "failure" THEN 0 ELSE found
         IN /\ failedTeamList' = (result = "failure")
            /\ teams' = n
            /\ IF n = 0
               THEN runPc' = "exit" /\ idx' = 0 /\ step' = "none"
               ELSE runPc' = "team" /\ idx' = 1 /\ step' = "standard"
    /\ UNCHANGED <<skip_extra_stats, pagesRequested, failedStandard, failedExtra,
                   all_teams, cache, output>>
    /\ UNCHANGED besidesRun

\* One fetch of the loop body and what main does up to its next fetch: skip
\* the team, go to the next page, or (after the last page) map the roster,
\* append the team and write its cache file; after the last team, the exit on
\* an empty all_teams or generate_asm and generate_json.
ScrapePage(page) ==
    /\ runPc = "team"
    /\ step = page
    /\ \E result \in ScrapeResults :
         LET keeps == KeepsTeam(page, result)
             next == PageAfter(page, skip_extra_stats)
             teamEnds == ~keeps \/ next = "map"
             grown == IF keeps /\ next = "map" THEN Append(all_teams, idx) ELSE all_teams
         IN /\ pagesRequested' = pagesRequested \cup {<<idx, page>>}
            /\ failedStandard' =
                 IF page = "standard" /\ result = "failure"
                 THEN failedStandard \cup {idx} ELSE failedStandard
            /\ failedExtra' =
                 IF page # "standard" /\ result = "failure"
                 THEN failedExtra \cup {idx} ELSE failedExtra
            /\ all_teams' = grown
            /\ cache' = IF keeps /\ next = "map" THEN cache \cup {idx} ELSE cache
            /\ IF ~teamEnds
               THEN /\ step' = next
                    /\ UNCHANGED <<runPc, idx, output>>
               ELSE IF idx < teams
               THEN /\ idx' = idx + 1
                    /\ step' = "standard"
                    /\ UNCHANGED <<runPc, output>>
               ELSE IF grown = <<>>
               THEN /\ runPc' = "exit"
                    /\ step' = "none"
                    /\ UNCHANGED <<idx, output>>
               ELSE /\ runPc' = "done"
                    /\ step' = "none"
                    /\ output' = grown
                    /\ UNCHANGED idx
    /\ UNCHANGED <<skip_extra_stats, teams, failedTeamList>>
    /\ UNCHANGED besidesRun

ScrapeStandard == ScrapePage("standard")
ScrapeShooting == ScrapePage("shooting")
ScrapePassing == ScrapePage("passing")
ScrapeDefense == ScrapePage("defense")
ScrapePossession == ScrapePage("possession")
ScrapeKeeper == ScrapePage("keeper")

InitRun == FetchIdle /\ RosterIdle /\ StatsIdle /\ ScaleIdle /\ NameIdle /\ RunInit

NextRun ==
    \/ ScrapeTeamList
    \/ ScrapeStandard
    \/ ScrapeShooting
    \/ ScrapePassing
    \/ ScrapeDefense
    \/ ScrapePossession
    \/ ScrapeKeeper

SpecRun == InitRun /\ [][NextRun]_vars

(***************************************************************************)
(* Claims about the fetcher, checked under Spec                            *)
(***************************************************************************)

\* C1: within one fetch_page call no backend is sent more than R (3) GETs,
\* whether the fetch returns content, falls back or fails.
C1_AtMostRTriesPerBackend ==
    \A b \in Network : tries[b] <= 3

\* A fetch on cloudscraper that used all 3 tries, fell back to selenium, used
\* all 3 tries there and failed.
C1_Witness ==
    /\ pc = "idle" /\ outcome = "failure"
    /\ tries["cloudscraper"] = 3 /\ tries["selenium"] = 3

\* C2: every GET accepted as a success is followed by the full cooldown of 6,
\* so no GET is issued less than 6 after an accepted success, on any backend.
C2_CooldownAfterSuccess ==
    /\ lastStatus \in {"ok", "ok_empty", "page", "challenge_page"} => lastSleep = 6
    /\ sinceSuccess # NoGap => sinceSuccess >= 6
    /\ gapAtGet # NoGap => gapAtGet >= 6

\* A GET on selenium issued exactly 6 after an accepted success, itself accepted.
C2_Witness ==
    /\ gapAtGet = 6 /\ lastBackend = "selenium" /\ lastStatus = "page"
    /\ sinceSuccess = 6

\* The backends installed in this run (requests is imported unconditionally).
Available ==
    {"requests"} \cup (IF HAS_CLOUDSCRAPER THEN {"cloudscraper"} ELSE {})
                 \cup (IF HAS_SELENIUM THEN {"selenium"} ELSE {})

C3_Chain(b) ==
    IF b = "cloudscraper" /\ HAS_SELENIUM THEN "selenium"
    ELSE IF b = "requests" /\ HAS_CLOUDSCRAPER THEN "cloudscraper"
    ELSE "none"

C4_OfflineOverrides ==
    html_dir # "none" =>
        /\ pc = "idle" /\ fetcher_type = "offline" /\ loopOn = "none"
        /\ tries = ZeroTries /\ lastBackend = "none" /\ gapAtGet = NoGap
        /\ outcome = "failure" =>
              /\ offlineResult = 0
              /\ \A i \in 1..Len(candidates) : ~candidates[i]
        /\ outcome = "content" =>
              /\ offlineResult \in 1..Len(candidates)
              /\ candidates[offlineResult]
              /\ \A i \in 1..(offlineResult - 1) : ~candidates[i]
        /\ outcome = "none" => candidates = <<>>

\* selenium was requested without being installed, the directory exists, the
\* exact file is missing and the second fuzzy match is the first that is a file.
C4_Witness ==
    /\ html_dir = "dir" /\ requested = "selenium" /\ ~HAS_SELENIUM
    /\ candidates = <<FALSE, FALSE, TRUE>> /\ offlineResult = 3
    /\ outcome = "content"

\* C5 as claimed: a 403 is followed by a sleep of 3 x 6 = 18 on every backend
\* that sees status codes, and by a retry on that backend while tries remain.
C5_Backoff18After403 ==
    lastStatus = "403" =>
        /\ lastSleep = 18
        /\ tries[lastBackend] < 3 =>
              (pc = "loop" /\ loopOn = lastBackend /\ attempt = tries[lastBackend])

\* C5 amended: a 403 is followed by a sleep of 18 on cloudscraper and of 12
\* (2 x 6, the sleep of any other failure status) on requests, and in both by
\* a retry on the same backend while tries remain; it never ends the fetch.
C5_Backoff403PerBackend ==
    lastStatus = "403" =>
        /\ lastBackend \in {"cloudscraper", "requests"}
        /\ lastBackend = "cloudscraper" => lastSleep = 18
        /\ lastBackend = "requests" => lastSleep = 12
        /\ tries[lastBackend] < 3 =>
              (pc = "loop" /\ loopOn = lastBackend /\ attempt = tries[lastBackend])

\* cloudscraper answered its second GET with a 403 and is about to retry.
C5_Witness ==
    /\ lastStatus = "403" /\ lastBackend = "cloudscraper" /\ lastSleep = 18
    /\ tries["cloudscraper"] = 2 /\ pc = "loop" /\ loopOn = "cloudscraper"

\* C18: fetch_page leaves a backend only after R (3) unsuccessful attempts in
\* a row on the URL: a GET answered with status 200 is never followed, within
\* the same fetch, by a switch to another backend or by a failure result,
\* whatever the body is (an empty body included).
C18_No200ThenEscalation ==
    /\ lastStatus \in {"ok", "ok_empty"} => (pc = "idle" /\ outcome = "content")
    /\ (pc = "loop" /\ loopOn # primary) => tries[primary] = 3
    /\ (pc = "idle" /\ outcome = "failure" /\ primary \in Network) =>
          tries[fetcher_type] = 3

\* The position of a backend in the chain requests -> cloudscraper -> selenium.
C19_Rank(b) ==
    IF b = "requests" THEN 1 ELSE IF b = "cloudscraper" THEN 2
    ELSE IF b = "selenium" THEN 3 ELSE 0

\* C19: the backend a fetch escalated to stays the active backend for every
\* later fetch, also when that fetch ended in failure; the active backend
\* only moves along requests -> cloudscraper -> selenium, one link at a time
\* and only inside a fetch, and a later fetch starts on the active backend.
C19_ActiveBackendOnlyAdvances ==
    [][ /\ fetcher_type \in Network =>
             /\ fetcher_type' \in Network
             /\ C19_Rank(fetcher_type') >= C19_Rank(fetcher_type)
             /\ fetcher_type' # fetcher_type =>
                   /\ C19_Rank(fetcher_type') = C19_Rank(fetcher_type) + 1
                   /\ pc = "loop" /\ loopOn = fetcher_type /\ loopOn' = fetcher_type'
        /\ (pc = "idle" /\ pc' = "loop") =>
             (loopOn' = fetcher_type /\ primary' = fetcher_type /\ fetcher_type' = fetcher_type)
        /\ (pc = "loop" /\ pc' = "idle" /\ outcome' = "failure") =>
             fetcher_type' = loopOn
      ]_vars

\* requests was requested; an earlier fetch escalated to cloudscraper and a
\* later fetch, started on cloudscraper, escalated to selenium and failed there.
C19_Witness ==
    /\ requested = "requests" /\ primary = "cloudscraper"
    /\ fetcher_type = "selenium" /\ pc = "idle" /\ outcome = "failure"
    /\ tries["requests"] = 0 /\ tries["selenium"] = 3

\* C20: at every point of a run at most one session object is open: the open
\* session is the one bound to _fetcher_session and belongs to the active
\* backend; when fetch_page switches backend the session of the abandoned
\* backend is closed, so no session of an abandoned backend stays open.
C20_OneOpenSession ==
    /\ Cardinality({i \in 1..Len(sessions) : sessions[i].open}) <= 1
    /\ \A i \in 1..Len(sessions) :
          sessions[i].open =>
              (i = fetcher_session /\ sessions[i].backend = fetcher_type)

\* GETs of the current fetch_page call, over all backends.
C23_Gets == tries["cloudscraper"] + tries["selenium"] + tries["requests"]

\* Backends the current fetch_page call has sent a GET on.
C23_Used == {b \in Network : tries[b] > 0}

C23_BoundedCall ==
    /\ \A b \in Network : tries[b] <= Retries
    /\ C23_Gets <= 2 * Retries
    /\ Cardinality(C23_Used) <= 2
    /\ C23_Used \subseteq {primary, Fallback(primary, HAS_CLOUDSCRAPER, HAS_SELENIUM)}
    /\ pc = "loop" => /\ loopOn \in Network
                      /\ attempt < Retries
                      /\ outcome = "none"
    /\ (pc = "idle" /\ primary \in Network) =>
          /\ outcome \in {"content", "failure"}
          /\ outcome = "content" => Truthy(lastStatus)
          /\ fetcher_type \in Network

CategoryOf(p) ==
    IF \E i \in 1..Len(p.position) : p.position[i] = "GK" THEN 0
    ELSE IF \E i \in 1..Len(p.position) : p.position[i] = "DF" THEN 1
    ELSE IF \E i \in 1..Len(p.position) : p.position[i] = "MF" THEN 2
    ELSE IF \E i \in 1..Len(p.position) : p.position[i] = "FW" THEN 3
    ELSE 2

\* Players of the pool whose tag matches the category code.
Matching(tag) ==
    Cardinality({i \in 1..Len(pool) : \E k \in 1..Len(pool[i].position) :
                                         pool[i].position[k] = tag})

\* Entries of the returned roster counted in category c.
CountOf(c) == Cardinality({i \in 1..Len(roster) : CategoryOf(roster[i]) = c})

\* C6: every entry of the returned roster is a player of the pool and no
\* player is in the roster twice, also with multi-category tags.
C6_SubsetNoDuplicates ==
    rpc = "selected" =>
        /\ \A i \in 1..Len(roster) : \E j \in 1..Len(pool) : pool[j] = roster[i]
        /\ \A i, j \in 1..Len(roster) : i < j => roster[i].id # roster[j].id

\* C7: the returned roster has at most min(pool size, 20) entries.
C7_AtMostMinPool20 ==
    rpc = "selected" => Len(roster) <= Min(Len(pool), 20)

\* C8: when the pool has at least 2 GK, 6 DF, 7 MF and 5 FW matches, the
\* roster holds exactly 2, 6, 7 and 5 players of these categories.
C8_QuotaCounts ==
    (/\ rpc = "selected"
     /\ Matching("GK") >= 2 /\ Matching("DF") >= 6
     /\ Matching("MF") >= 7 /\ Matching("FW") >= 5) =>
        /\ CountOf(0) = 2 /\ CountOf(1) = 6
        /\ CountOf(2) = 7 /\ CountOf(3) = 5

\* C9: the returned roster is grouped GK, DF, MF, FW (unmatched as MF), and
\* within each category the players are in the order they had in the
\* selection sequence: the final reorder is a stable partition.
C9_StablePartition ==
    rpc = "selected" =>
        /\ \A i, j \in 1..Len(roster) :
              i < j => CategoryOf(roster[i]) <= CategoryOf(roster[j])
        /\ \A c \in 0..3 :
              SelectSeq(roster, LAMBDA p : CategoryOf(p) = c)
                = SelectSeq(selection, LAMBDA p : CategoryOf(p) = c)

\* A roster filled beyond the bucket picks that the reorder changed, in which
\* a player with fewer minutes stands before one of its category with more
\* minutes (a fill after a bucket pick), and a player with an unmatched tag
\* sits among the midfielders, after a defender and before a forward.
C9_Witness ==
    /\ rpc = "selected" /\ Len(roster) > 10 /\ roster # selection
    /\ \E i, j \in 1..Len(roster) :
          /\ i < j /\ CategoryOf(roster[i]) = CategoryOf(roster[j])
          /\ roster[i].minutes < roster[j].minutes
    /\ \E i, j, k \in 1..Len(roster) :
          /\ i < j /\ j < k /\ roster[j].position = <<>>
          /\ CategoryOf(roster[i]) = 1 /\ CategoryOf(roster[k]) = 3

\* The players of the pool have pairwise distinct names.
C21_DistinctNames ==
    \A i, j \in 1..Len(pool) : i # j => pool[i].name # pool[j].name

\* C21: for a pool with pairwise distinct names select_roster fills until 20
\* is reached or the pool is exhausted: a pool of at least 20 players gives
\* exactly 20 entries, and a roster of fewer than 20 entries holds every
\* player of the pool, whatever the position tags are.
C21_FillsToTwentyOrExhausts ==
    (rpc = "selected" /\ C21_DistinctNames) =>
        /\ Len(pool) >= 20 => Len(roster) = 20
        /\ Len(roster) < 20 =>
              \A j \in 1..Len(pool) : \E i \in 1..Len(roster) : roster[i] = pool[j]

\* A pool of exactly 20 with distinct names, buckets below their quotas and
\* two players whose tags match no category: all 20 are in the roster.
C21_Witness ==
    /\ rpc = "selected" /\ C21_DistinctNames /\ Len(pool) = 20
    /\ Len(roster) = 20
    /\ Cardinality({i \in 1..Len(roster) : roster[i].position = <<>>}) = 2
    /\ \A j \in 1..Len(pool) : \E i \in 1..Len(roster) : roster[i] = pool[j]

(***************************************************************************)
(* Claims about compute_issd_stats, checked under SpecStats                *)
(***************************************************************************)

\* C10: each of the 8 attributes compute_issd_stats returns is an integer in
\* 0..9, for zero, negative and very large inputs, present or absent tables
\* and every position tag.
C10_AttributesInRange ==
    spc = "computed" =>
        /\ stats.speed \in 0..9 /\ stats.kick_power \in 0..9
        /\ stats.dribbling \in 0..9 /\ stats.heading \in 0..9
        /\ stats.stamina \in 0..9 /\ stats.defense \in 0..9
        /\ stats.passing \in 0..9 /\ stats.aggression \in 0..9

\* Negative cards and very large goals with the shooting table empty and the
\* possession row present: aggression is held at 0 and heading at 9.
C10_Witness ==
    /\ spc = "computed"
    /\ player.yellow_cards < 0 /\ player.goals > 1000
    /\ tables.shoot = <<>> /\ tables.poss # <<>>
    /\ stats.aggression = 0 /\ stats.heading = 9

\* C13: a player whose position tag contains GK, alone or next to other
\* categories, gets kick_power 3 whatever the goals, expected goals and shots
\* on target are.
C13_KeeperKickPower3 ==
    (spc = "computed" /\ \E i \in 1..Len(player.position) : player.position[i] = "GK")
        => stats.kick_power = 3

\* A player tagged "GK,DF" with very large goals and shots on target.
C13_Witness ==
    /\ spc = "computed" /\ player.position = <<"GK", "DF">>
    /\ player.goals > 1000 /\ tables.shoot # <<>>
    /\ tables.shoot[1].shots_on_target > 1000
    /\ stats.kick_power = 3

\* C14: the packed record has 8 bytes: byte 0 is the position value (0x00,
\* 0x04, 0x08 or 0x0D), bytes 1 to 4 are 16 * first + second for the pairs
\* (speed, kick_power), (dribbling, heading), (stamina, defense), (passing,
\* aggression), bytes 5 to 7 are 0, and the high and low nibble of bytes 1 to
\* 4 are the eight attributes returned alongside.
C14_PackedRecord ==
    spc = "computed" =>
        LET b == stats.bytes
        IN /\ Len(b) = 8
           /\ b[1] \in {0, 4, 8, 13} /\ b[1] = stats.pos_byte
           /\ b[2] = 16 * stats.speed + stats.kick_power
           /\ b[3] = 16 * stats.dribbling + stats.heading
           /\ b[4] = 16 * stats.stamina + stats.defense
           /\ b[5] = 16 * stats.passing + stats.aggression
           /\ b[6] = 0 /\ b[7] = 0 /\ b[8] = 0
           /\ \A i \in 1..8 : b[i] \in 0..255
           /\ b[2] \div 16 = stats.speed /\ b[2] % 16 = stats.kick_power
           /\ b[3] \div 16 = stats.dribbling /\ b[3] % 16 = stats.heading
           /\ b[4] \div 16 = stats.stamina /\ b[4] % 16 = stats.defense
           /\ b[5] \div 16 = stats.passing /\ b[5] % 16 = stats.aggression

\* A midfielder with speed 7 and kick power 3: byte 1 is 0x73, byte 0 is 0x08.
C14_Witness ==
    /\ spc = "computed" /\ stats.bytes[1] = 8
    /\ stats.speed = 7 /\ stats.kick_power = 3 /\ stats.bytes[2] = 115
    /\ stats.dribbling # stats.heading /\ stats.bytes[5] # 0

(***************************************************************************)
(* Claims about the mapped roster, checked under SpecMapped                *)
(***************************************************************************)

\* The position value of the group roster.sort places a player in: POS_GK,
\* POS_DF, POS_MF, POS_FW for the keys 0, 1, 2, 3 of pos_key.
C22_GroupByte(p) == <<POS_GK, POS_DF, POS_MF, POS_FW>>[pos_key(p) + 1]

\* C22: for every player and tag, tags of several categories such as "FW,MF"
\* included, byte 0 of compute_issd_stats encodes the category select_roster
\* places the player in, so along a mapped roster the position bytes come in
\* the order 0x00, 0x04, 0x08, 0x0D and never decrease.
C22_PositionByteFollowsGroup ==
    rpc = "mapped" =>
        /\ Len(roster_mapped) = Len(roster)
        /\ \A i \in 1..Len(roster_mapped) :
              roster_mapped[i].stat_bytes[1] = C22_GroupByte(roster[i])
        /\ \A i, j \in 1..Len(roster_mapped) :
              i < j => roster_mapped[i].stat_bytes[1] <= roster_mapped[j].stat_bytes[1]

(***************************************************************************)
(* Claims about scale, checked under SpecScale                             *)
(***************************************************************************)

\* C11 as claimed: for every triple scale returns 0 when value <= lo, 1 when
\* value >= hi, 1/2 whenever hi <= lo, and (value - lo)/(hi - lo) for
\* lo < value < hi with lo < hi, so the result lies in [0, 1].
C11_ScaleAsClaimed ==
    scalePc = "applied" =>
        LET v == scaleArgs.value
            lo == scaleArgs.src_min
            hi == scaleArgs.src_max
            r == scaleResult
        IN /\ v.n <= lo * v.d => r = [n |-> 0, d |-> 1]
           /\ v.n >= hi * v.d => r = [n |-> 1, d |-> 1]
           /\ hi <= lo => r = [n |-> 1, d |-> 2]
           /\ (lo < hi /\ lo * v.d < v.n /\ v.n < hi * v.d) =>
                 r.n * (v.d * (hi - lo)) = r.d * (v.n - lo * v.d)
           /\ 0 <= r.n /\ r.n <= r.d

\* C11 amended: the guard on the range comes first. scale returns 1/2
\* whenever hi <= lo, whatever the value; for lo < hi it returns 0 when
\* value <= lo, 1 when value >= hi and (value - lo)/(hi - lo) in between, so
\* the result lies in [0, 1].
C11_ScaleGuardFirst ==
    scalePc = "applied" =>
        LET v == scaleArgs.value
            lo == scaleArgs.src_min
            hi == scaleArgs.src_max
            r == scaleResult
        IN /\ hi <= lo => r = [n |-> 1, d |-> 2]
           /\ (lo < hi /\ v.n <= lo * v.d) => r = [n |-> 0, d |-> 1]
           /\ (lo < hi /\ v.n >= hi * v.d) => r = [n |-> 1, d |-> 1]
           /\ (lo < hi /\ lo * v.d < v.n /\ v.n < hi * v.d) =>
                 r.n * (v.d * (hi - lo)) = r.d * (v.n - lo * v.d)
           /\ 0 <= r.n /\ r.n <= r.d

\* scale(6.5, 5, 10) gave 0.3, strictly inside the range.
C11_Witness ==
    /\ scalePc = "applied"
    /\ scaleArgs = [value |-> [n |-> 13, d |-> 2], src_min |-> 5, src_max |-> 10]
    /\ scaleResult = [n |-> 3, d |-> 10]

(***************************************************************************)
(* Claims about format_name_8char, checked under SpecName                  *)
(***************************************************************************)

\* C12: for every input (empty, whitespace only, only characters outside the
\* alphabet, accented characters including the sharp s, tokens longer than 8)
\* format_name_8char returns exactly 8 characters, each a key of
\* TALL_MENU_TEXT_ENCODING.
C12_EightEncodableChars ==
    namePc = "formatted" =>
        /\ Len(name_8char) = 8
        /\ \A i \in 1..Len(name_8char) : name_8char[i] \in TALL_MENU_TEXT_ENCODING

\* A name wrapped in whitespace whose last token has an accent and a sharp s:
\* the expansion makes it longer than 8, so it is abbreviated.
C12_Witness ==
    /\ namePc = "formatted"
    /\ full_name = <<" ", "hash", "9", " ", "J", "o", " ",
                     "M", "uuml", "szlig", "l", "e", "r", "s", "o", "tab", " ">>
    /\ name_8char = <<"9", ".", "M", "u", "s", "s", "l", "e">>

\* The token is a linking particle (da, de, do, dos, das, e, di), in any case.
C15_IsParticle(t) ==
    LET low == [i \in 1..Len(t) |->
                  IF \E k \in 1..26 : UpperCase[k] = t[i]
                  THEN LowerCase[CHOOSE k \in 1..26 : UpperCase[k] = t[i]]
                  ELSE t[i]]
    IN low \in { <<"d", "a">>, <<"d", "e">>, <<"d", "o">>, <<"d", "o", "s">>,
                 <<"d", "a", "s">>, <<"e">>, <<"d", "i">> }

C16_DocstringExamples ==
    namePc = "formatted" =>
        /\ full_name = NeymarFull =>
              name_8char = <<" ", "N", "e", "y", "m", "a", "r", " ">>
        /\ full_name = GabrielFull =>
              name_8char = <<"G", ".", "B", "a", "r", "b", "o", "s">>
        /\ full_name = EndrickFull =>
              name_8char = <<"E", "n", "d", "r", "i", "c", "k", " ">>
        /\ full_name = ViniciusFull =>
              name_8char = <<"O", "l", "i", "v", "e", "i", "r", "a">>

(***************************************************************************)
(* Claims about the run of main, checked under SpecRun                     *)
(***************************************************************************)

\* The teams in a sequence of teams.
C17_Members(s) == {s[i] : i \in 1..Len(s)}

\* C17: a failed team-list fetch ends the run with an error before any team
\* page is requested and before any output is produced; a failed
\* standard-stats fetch omits exactly that team from the output while every
\* later team is still fetched and processed; a failed supplementary-table
\* fetch never removes a team from the output.
C17_FailureScopes ==
    /\ failedTeamList =>
          /\ runPc = "exit" /\ pagesRequested = {} /\ all_teams = <<>>
          /\ cache = {} /\ output = <<>>
    /\ \A t \in failedStandard :
          /\ t \notin C17_Members(all_teams)
          /\ \A p \in C17_Members(ExtraPages) : <<t, p>> \notin pagesRequested
          /\ t < teams =>
                \/ runPc = "team" /\ idx > t
                \/ runPc \in {"done", "exit"}
    /\ (runPc \in {"done", "exit"} /\ ~failedTeamList) =>
          /\ \A t \in 1..teams : <<t, "standard">> \in pagesRequested
          /\ \A t \in 1..teams :
                (t \notin failedStandard /\ <<t, "keeper">> \in pagesRequested)
                    => t \in C17_Members(all_teams)
          /\ \A t \in failedExtra : t \in C17_Members(all_teams)
          /\ runPc = "done" => output = all_teams
          /\ runPc = "exit" => (output = <<>> /\ all_teams = <<>>)
    /\ \A t \in failedExtra :
          (idx > t \/ runPc \in {"done", "exit"}) => t \in C17_Members(all_teams)
    /\ output # <<>> => C17_Members(output) \cap failedStandard = {}

\* Three teams: the standard fetch of the first failed, a supplementary fetch
\* of the second failed, and the output holds the second and the third.
C17_Witness ==
    /\ runPc = "done" /\ teams = 3
    /\ failedStandard = {1} /\ failedExtra = {2}
    /\ output = <<2, 3>>
    /\ <<3, "keeper">> \in pagesRequested

====
